---- MODULE Spec2Model ----
(***************************************************************************)
(* Model of app.py, the FTF policy comparator dashboard.                   *)
(*                                                                         *)
(* The script is re-executed from its first line on every widget           *)
(* interaction: it reads the CSV table, annotates it, filters it by the    *)
(* sidebar selections, computes the KPI cards, formats the table view and  *)
(* compares two countries.  The widget selections are the only state that  *)
(* survives a run; every other variable is what the last run computed.     *)
(*                                                                         *)
(* Numbers with one decimal (completeness_pct, avg_completeness) are kept  *)
(* as integers in tenths: 417 stands for 41.7.  Field scores are kept in   *)
(* halves: 2 stands for 1.0, 1 for 0.5.                                    *)
(*                                                                         *)
(* The two charts (lines 141-164), the static texts and the free-text      *)
(* notes column only display values that filtered_df and kpi already hold  *)
(* and assign no variable of the script; they are left out.                *)
(***************************************************************************)
EXTENDS Integers, Sequences, FiniteSets, TLC

VARIABLES
    raw,                 \* the rows of the CSV text (CSV_DATA), cell by cell
    df,                  \* the canonical frame after lines 26, 77, 78
    selected_countries,  \* sidebar multiselect "Pilih negara"
    selected_status,     \* sidebar multiselect "Status review"
    selected_category,   \* sidebar selectbox "Fokus kategori kebijakan"
    country_a,           \* selectbox "Negara A"
    country_b,           \* selectbox "Negara B"
    filtered_df,         \* lines 103-110
    kpi,                 \* lines 121-127
    display_df,          \* lines 173-175
    compare_rows,        \* lines 207-226
    summary              \* lines 232-239

vars == <<raw, df, selected_countries, selected_status, selected_category,
          country_a, country_b, filtered_df, kpi, display_df, compare_rows,
          summary>>

(***************************************************************************)
(* Bounds of the model.                                                    *)
(***************************************************************************)
MaxRows == 2

(***************************************************************************)
(* Values of the program.                                                  *)
(***************************************************************************)
\* The float nan that read_csv stores for an empty cell.  It is not a string
\* and it is not equal to itself.
NaN == "<nan>"

\* The NaT that to_datetime(errors="coerce") stores for an unparsable date.
NaT == <<>>

POLICY_COLUMNS ==
    <<"prevention", "administrative", "criminal_justice", "surveillance",
      "rehab_reintegration", "women_children_notes">>

PolicySet == {POLICY_COLUMNS[i] : i \in 1..Len(POLICY_COLUMNS)}

STATUS_OPTIONS == <<"Green", "Yellow", "Red">>

StatusSet == {STATUS_OPTIONS[i] : i \in 1..Len(STATUS_OPTIONS)}

Semua == "Semua"

\* What the comparator widgets hold when they are not rendered (line 243).
NoCountry == "<none>"

\* The three scored values of YES_SCORE, in halves.
YES_SCORE == [Yes |-> 2, Partial |-> 1, No |-> 0]

\* str(x): a string is itself, the float nan prints as "nan".
PyStr(x) == IF x = NaN THEN "nan" ELSE x

\* str.strip(): removes leading and trailing whitespace.
Strip(s) ==
    CASE s = " Yes" -> "Yes"
      [] s = "Yes " -> "Yes"
      [] s = " Partial" -> "Partial"
      [] s = " No" -> "No"
      [] s = "No " -> "No"
      [] OTHER -> s

\* Python's x == y on cell values: nan == nan is False.
PyEq(x, y) == x # NaN /\ y # NaN /\ x = y

\* x in [..] on cell values (list membership by ==; a nan read from the
\* table is a different object from any list element).
PyIn(x, S) == x # NaN /\ x \in S

\* round(n / d, 0) for n >= 0, d > 0: Python rounds to the nearest, a tie to
\* the even neighbour.
RoundDiv(n, d) ==
    LET q == n \div d
        r == n % d
    IN  IF 2 * r < d THEN q
        ELSE IF 2 * r > d THEN q + 1
        ELSE IF q % 2 = 0 THEN q ELSE q + 1

RECURSIVE SumSeq(_)
SumSeq(s) == IF s = <<>> THEN 0 ELSE Head(s) + SumSeq(Tail(s))

\* dict.get(val, 0.0) on YES_SCORE
ScoreGet(val) == IF val \in DOMAIN YES_SCORE THEN YES_SCORE[val] ELSE 0

\* A completeness that cuts the percentage off after the first decimal
\* instead of rounding it.
calc_country_completeness_truncating(row) ==
    LET scores == [i \in 1..Len(POLICY_COLUMNS) |->
                      ScoreGet(Strip(PyStr(row[POLICY_COLUMNS[i]])))]
    IN  (SumSeq(scores) * 1000) \div (2 * Len(scores))

\* calc_country_completeness: the scores of the six columns, their mean times
\* 100, rounded to one decimal (in tenths: round(1000 * sum2 / (2 * len))).
calc_country_completeness(row) ==
    LET scores == [i \in 1..Len(POLICY_COLUMNS) |->
                      ScoreGet(Strip(PyStr(row[POLICY_COLUMNS[i]])))]
    IN  RoundDiv(SumSeq(scores) * 1000, 2 * Len(scores))

(***************************************************************************)
(* Loading: read_csv, normalize_date, completeness_pct.                    *)
(***************************************************************************)
\* read_csv turns an empty cell into nan and keeps any other text verbatim
\* (it does not trim spaces: skipinitialspace is off).
ReadCell(text) == IF text = "" THEN NaN ELSE text

\* pd.to_datetime(errors="coerce") on one cell.
ToDatetime(x) ==
    CASE x = "2026-02-20" -> <<2026, 2, 20>>
      [] x = "2026-01-28" -> <<2026, 1, 28>>
      [] OTHER -> NaT

\* strftime("%Y-%m-%d") on one cell of a datetime column; NaT gives nan.
Strftime(d) ==
    CASE d = <<2026, 2, 20>> -> "2026-02-20"
      [] d = <<2026, 1, 28>> -> "2026-01-28"
      [] OTHER -> NaN

\* df = pd.read_csv(StringIO(CSV_DATA)): one frame row per CSV row, in order.
read_csv(rows) ==
    [i \in 1..Len(rows) |-> [c \in DOMAIN rows[i] |-> ReadCell(rows[i][c])]]

\* df["last_update"] = normalize_date(df["last_update"])
normalize_date(frame) ==
    [i \in 1..Len(frame) |->
        [frame[i] EXCEPT !.last_update = ToDatetime(frame[i].last_update)]]

\* df["completeness_pct"] = df.apply(calc_country_completeness, axis=1)
Annotate(frame) ==
    [i \in 1..Len(frame) |->
        frame[i] @@ ("completeness_pct" :> calc_country_completeness(frame[i]))]

LoadFrame(rows) == Annotate(normalize_date(read_csv(rows)))

(***************************************************************************)
(* Sidebar: the country options.                                           *)
(***************************************************************************)
\* The country names of the model, in the order sorted() gives them.
COUNTRY_ORDER == <<"France", "Germany">>

\* sorted(df["country"].dropna().unique().tolist())
countries(frame) ==
    LET present == {frame[i].country : i \in 1..Len(frame)} \ {NaN}
        keep(c) == c \in present
    IN  SelectSeq(COUNTRY_ORDER, keep)

CountrySet(frame) == {countries(frame)[i] : i \in 1..Len(countries(frame))}

\* The widget defaults of the first run: every country, every status, no
\* category focus, "Negara A" at index 0 and "Negara B" at index
\* min(1, len(countries) - 1); the two selectboxes exist only when there are
\* at least two countries (line 197).
DefaultCountryA(frame) ==
    IF Len(countries(frame)) >= 2 THEN countries(frame)[1] ELSE NoCountry

DefaultCountryB(frame) ==
    IF Len(countries(frame)) >= 2 THEN countries(frame)[2] ELSE NoCountry

(***************************************************************************)
(* Filtering, lines 103-110.                                               *)
(***************************************************************************)
\* A filter that joins the two membership tests with | instead of &.
FilterFrameEither(frame, sc, ss, cat) ==
    LET mask(r) == PyIn(r.country, sc) \/ PyIn(r.review_status, ss)
        first == SelectSeq(frame, mask)
        focus(r) == PyIn(r[cat], {"Yes", "Partial"})
    IN  IF cat # Semua THEN SelectSeq(first, focus) ELSE first

\* df[df["country"].isin(selected_countries) &
\*    df["review_status"].isin(selected_status)].copy(), then the category
\* focus: rows whose value in the chosen column is "Yes" or "Partial".
FilterFrame(frame, sc, ss, cat) ==
    LET mask(r) == PyIn(r.country, sc) /\ PyIn(r.review_status, ss)
        first == SelectSeq(frame, mask)
        focus(r) == PyIn(r[cat], {"Yes", "Partial"})
    IN  IF cat # Semua THEN SelectSeq(first, focus) ELSE first

(***************************************************************************)
(* KPI cards, lines 121-127.                                               *)
(***************************************************************************)
\* (column == value).sum()
CountEq(frame, col, value) ==
    Cardinality({i \in 1..Len(frame) : PyEq(frame[i][col], value)})

\* count_gap_fields: for each policy column, add the number of "No" cells.
RECURSIVE GapLoop(_, _)
GapLoop(frame, k) ==
    IF k = 0 THEN 0
    ELSE GapLoop(frame, k - 1) + CountEq(frame, POLICY_COLUMNS[k], "No")

\* A gap count that trims the cell before comparing it with "No".
count_gap_fields_trimmed(frame) ==
    Cardinality({<<i, c>> \in (1..Len(frame)) \X PolicySet :
                    Strip(PyStr(frame[i][c])) = "No"})

count_gap_fields(frame) == GapLoop(frame, Len(POLICY_COLUMNS))

\* round(mean, 1) of a numpy float: the nearest tenth; when the mean lies
\* halfway between two tenths the result depends on the binary value of the
\* float, so both neighbours are possible outcomes.
RoundMean(total, n) ==
    IF 2 * (total % n) = n
        THEN {total \div n, (total \div n) + 1}
        ELSE {RoundDiv(total, n)}

\* avg_completeness: the guarded mean of line 126.
avg_completeness(frame) ==
    IF Len(frame) > 0
        THEN RoundMean(SumSeq([i \in 1..Len(frame) |-> frame[i].completeness_pct]),
                       Len(frame))
        ELSE {0}

\* gap_fields: the guarded count of line 127.
gap_fields(frame) == IF Len(frame) > 0 THEN count_gap_fields(frame) ELSE 0

\* KPI cards whose status counts are taken from the canonical frame.
KpiCardsOfFrame(frame, view) ==
    {[total_country |-> Len(view),
      total_all |-> Len(frame),
      green_count |-> CountEq(frame, "review_status", "Green"),
      yellow_count |-> CountEq(frame, "review_status", "Yellow"),
      red_count |-> CountEq(frame, "review_status", "Red"),
      avg_completeness |-> avg,
      gap_fields |-> gap_fields(view)] : avg \in avg_completeness(view)}

\* The KPI values of one run, one record per possible rounding outcome.
KpiCards(frame, view) ==
    {[total_country |-> Len(view),
      total_all |-> Len(frame),
      green_count |-> CountEq(view, "review_status", "Green"),
      yellow_count |-> CountEq(view, "review_status", "Yellow"),
      red_count |-> CountEq(view, "review_status", "Red"),
      avg_completeness |-> avg,
      gap_fields |-> gap_fields(view)] : avg \in avg_completeness(view)}

(***************************************************************************)
(* Table view, lines 173-175.                                              *)
(***************************************************************************)
\* The glyphs of STATUS_EMOJI, by name.
STATUS_EMOJI == [Green |-> "(green)", Yellow |-> "(yellow)", Red |-> "(red)"]

\* f"{glyph} {status}" for the glyphs and the status texts of the model.
BadgeText(glyph, text) ==
    CASE glyph = "(green)" /\ text = "Green" -> "(green) Green"
      [] glyph = "(yellow)" /\ text = "Yellow" -> "(yellow) Yellow"
      [] glyph = "(red)" /\ text = "Red" -> "(red) Red"
      [] glyph = "(white)" /\ text = "Amber" -> "(white) Amber"
      [] glyph = "(white)" /\ text = "nan" -> "(white) nan"
      [] OTHER -> "(other)"

\* status_badge: the glyph of the status (the white one for any other
\* value), a space, and the status as printed.
status_badge(status) ==
    BadgeText(IF status \in DOMAIN STATUS_EMOJI THEN STATUS_EMOJI[status]
                                                ELSE "(white)",
              PyStr(status))

\* column = column.apply(status_badge)
BadgeColumn(view) ==
    [i \in 1..Len(view) |->
        [view[i] EXCEPT !.review_status = status_badge(view[i].review_status)]]

\* column = column.dt.strftime("%Y-%m-%d")
DateColumn(view) ==
    [i \in 1..Len(view) |->
        [view[i] EXCEPT !.last_update = Strftime(view[i].last_update)]]

\* The frames of one run: env.df is the canonical frame, env.filtered_df the
\* filtered copy, env.display_df the formatted copy.
FilterStage(env, sc, ss, cat) ==
    [env EXCEPT !.filtered_df = FilterFrame(env.df, sc, ss, cat)]

\* A table view that writes the badges into the canonical frame as well.
TableViewInPlace(env) ==
    [env EXCEPT !.df = BadgeColumn(env.df),
                !.display_df = DateColumn(BadgeColumn(env.filtered_df))]

\* display_df = filtered_df.copy(); the two column assignments go to the
\* copy only.
TableView(env) ==
    [env EXCEPT !.display_df = DateColumn(BadgeColumn(env.filtered_df))]

(***************************************************************************)
(* Country comparator, lines 197-243.                                      *)
(***************************************************************************)
CATEGORY_LABELS ==
    [prevention |-> "Prevention",
     administrative |-> "Administrative Measures",
     criminal_justice |-> "Criminal Justice",
     surveillance |-> "Surveillance/Monitoring",
     rehab_reintegration |-> "Rehabilitation/Reintegration",
     women_children_notes |-> "Women & Children"]

\* The notes of the "Catatan" column.  f"{country} lebih kuat" is kept as the
\* pair of its text and the country it names.
Sama == [text |-> "Sama", country |-> NoCountry]

Berbeda == [text |-> "Berbeda", country |-> NoCountry]

LebihKuat(c) == [text |-> "lebih kuat", country |-> c]

\* A chain whose first elif forgets the pair Partial over No.
CatatanWithoutPartialNo(a_val, b_val, ca, cb) ==
    IF PyEq(a_val, b_val) THEN Sama
    ELSE IF PyEq(a_val, "Yes") /\ PyIn(b_val, {"Partial", "No"})
        THEN LebihKuat(ca)
    ELSE IF \/ (PyEq(b_val, "Yes") /\ PyIn(a_val, {"Partial", "No"}))
            \/ (PyEq(b_val, "Partial") /\ PyEq(a_val, "No"))
        THEN LebihKuat(cb)
    ELSE Berbeda

\* The if / elif chain of lines 212-219.
Catatan(a_val, b_val, ca, cb) ==
    IF PyEq(a_val, b_val) THEN Sama
    ELSE IF \/ (PyEq(a_val, "Yes") /\ PyIn(b_val, {"Partial", "No"}))
            \/ (PyEq(a_val, "Partial") /\ PyEq(b_val, "No"))
        THEN LebihKuat(ca)
    ELSE IF \/ (PyEq(b_val, "Yes") /\ PyIn(a_val, {"Partial", "No"}))
            \/ (PyEq(b_val, "Partial") /\ PyEq(a_val, "No"))
        THEN LebihKuat(cb)
    ELSE Berbeda

\* df[df["country"] == c].iloc[0]: the first row of that country.
RowOf(frame, c) ==
    LET hit == {i \in 1..Len(frame) : PyEq(frame[i].country, c)}
    IN  frame[CHOOSE i \in hit : \A j \in hit : i <= j]

\* compare_rows: one entry per policy column, in the order of POLICY_COLUMNS.
\* (The entry's two value columns are keyed by the country names.)
CompareRows(row_a, row_b, ca, cb) ==
    [k \in 1..Len(POLICY_COLUMNS) |->
        LET col == POLICY_COLUMNS[k]
        IN  [Kategori |-> CATEGORY_LABELS[col],
             a_val |-> row_a[col],
             b_val |-> row_b[col],
             Catatan |-> Catatan(row_a[col], row_b[col], ca, cb)]]

\* A summary whose first two branches name the countries the wrong way round.
SummarySwapped(row_a, row_b, ca, cb) ==
    LET score_a == row_a.completeness_pct
        score_b == row_b.completeness_pct
    IN  IF score_a > score_b
            THEN [text |-> "lebih lengkap", first |-> cb, first_score |-> score_b,
                  second |-> ca, second_score |-> score_a]
        ELSE IF score_b > score_a
            THEN [text |-> "lebih lengkap", first |-> ca, first_score |-> score_a,
                  second |-> cb, second_score |-> score_b]
        ELSE [text |-> "setara", first |-> ca, first_score |-> score_a,
              second |-> cb, second_score |-> score_a]

\* The narrative summary of lines 232-239: the country named first, its
\* score, the country named second, its score.
Summary(row_a, row_b, ca, cb) ==
    LET score_a == row_a.completeness_pct
        score_b == row_b.completeness_pct
    IN  IF score_a > score_b
            THEN [text |-> "lebih lengkap", first |-> ca, first_score |-> score_a,
                  second |-> cb, second_score |-> score_b]
        ELSE IF score_b > score_a
            THEN [text |-> "lebih lengkap", first |-> cb, first_score |-> score_b,
                  second |-> ca, second_score |-> score_a]
        ELSE [text |-> "setara", first |-> ca, first_score |-> score_a,
              second |-> cb, second_score |-> score_a]

\* What line 243 shows instead when there are fewer than two countries.
BelumCukup ==
    [text |-> "belum cukup", first |-> NoCountry, first_score |-> 0,
     second |-> NoCountry, second_score |-> 0]

Comparator(frame, ca, cb) ==
    IF Len(countries(frame)) >= 2
        THEN [rows |-> CompareRows(RowOf(frame, ca), RowOf(frame, cb), ca, cb),
              summary |-> Summary(RowOf(frame, ca), RowOf(frame, cb), ca, cb)]
        ELSE [rows |-> <<>>, summary |-> BelumCukup]

(***************************************************************************)
(* One run of the script.                                                  *)
(***************************************************************************)
\* Everything one run computes from the CSV rows and the widget values; one
\* record per possible rounding outcome of the average.
Run(rows, sc, ss, cat, ca, cb) ==
    LET loaded == [df |-> LoadFrame(rows), filtered_df |-> <<>>, display_df |-> <<>>]
        filtered == FilterStage(loaded, sc, ss, cat)
        cards == KpiCards(filtered.df, filtered.filtered_df)
        shown == TableView(filtered)
        cmp == Comparator(shown.df, ca, cb)
    IN  {[df |-> shown.df,
          filtered_df |-> shown.filtered_df,
          kpi |-> k,
          display_df |-> shown.display_df,
          compare_rows |-> cmp.rows,
          summary |-> cmp.summary] : k \in cards}

\* The script reruns with the new widget values.
Rerun(sc, ss, cat, ca, cb) ==
    /\ selected_countries' = sc
    /\ selected_status' = ss
    /\ selected_category' = cat
    /\ country_a' = ca
    /\ country_b' = cb
    /\ raw' = raw
    /\ \E out \in Run(raw, sc, ss, cat, ca, cb) :
        /\ df' = out.df
        /\ filtered_df' = out.filtered_df
        /\ kpi' = out.kpi
        /\ display_df' = out.display_df
        /\ compare_rows' = out.compare_rows
        /\ summary' = out.summary

\* The first run, with the widget defaults, on the CSV rows `rows`.
FirstRun(rows) ==
    LET frame == LoadFrame(rows)
    IN  /\ raw = rows
        /\ selected_countries = CountrySet(frame)
        /\ selected_status = StatusSet
        /\ selected_category = Semua
        /\ country_a = DefaultCountryA(frame)
        /\ country_b = DefaultCountryB(frame)
        /\ \E out \in Run(rows, CountrySet(frame), StatusSet, Semua,
                          DefaultCountryA(frame), DefaultCountryB(frame)) :
            /\ df = out.df
            /\ filtered_df = out.filtered_df
            /\ kpi = out.kpi
            /\ display_df = out.display_df
            /\ compare_rows = out.compare_rows
            /\ summary = out.summary

(***************************************************************************)
(* The widget interactions.                                                *)
(***************************************************************************)
SetCountries ==
    \E sc \in SUBSET CountrySet(df) :
        /\ sc # selected_countries
        /\ Rerun(sc, selected_status, selected_category, country_a, country_b)

SetStatus ==
    \E ss \in SUBSET StatusSet :
        /\ ss # selected_status
        /\ Rerun(selected_countries, ss, selected_category, country_a, country_b)

SetCategory ==
    \E cat \in {Semua} \cup PolicySet :
        /\ cat # selected_category
        /\ Rerun(selected_countries, selected_status, cat, country_a, country_b)

SelectCountryA ==
    /\ Len(countries(df)) >= 2
    /\ \E c \in CountrySet(df) :
        /\ c # country_a
        /\ Rerun(selected_countries, selected_status, selected_category, c, country_b)

SelectCountryB ==
    /\ Len(countries(df)) >= 2
    /\ \E c \in CountrySet(df) :
        /\ c # country_b
        /\ Rerun(selected_countries, selected_status, selected_category, country_a, c)

(***************************************************************************)
(* The CSV tables the model runs on.                                       *)
(***************************************************************************)
RawRow(country, last_update, review_status, cells) ==
    [country |-> country, last_update |-> last_update,
     review_status |-> review_status] @@ cells

Cells(p, a, c, s, r, w) ==
    [prevention |-> p, administrative |-> a, criminal_justice |-> c,
     surveillance |-> s, rehab_reintegration |-> r, women_children_notes |-> w]

\* CSV rows for the dashboard specification: well-formed rows, a row with a
\* malformed date, an unlisted status and padded, unknown and empty cells,
\* and a row without a country.
RowPool ==
    {RawRow("France", "2026-02-20", "Green", Cells("Yes", "Yes", "Yes", "Yes", "Yes", "Yes")),
     RawRow("Germany", "2026-01-28", "Red", Cells("Yes", "No", "Partial", "No", "Yes", "No")),
     RawRow("Germany", "soon", "Amber", Cells(" Yes", "No ", "", "Maybe", "Partial", "No")),
     RawRow("France", "", "Yellow", Cells("Partial", "Yes", "No", "Yes", " No", "")),
     RawRow("", "2026-02-20", "Yellow", Cells("No", "No", "Partial", "Yes", "Yes", "Yes"))}

RECURSIVE Tables(_)
Tables(n) ==
    IF n = 0 THEN {<<>>}
    ELSE Tables(n - 1) \cup
         {Append(t, r) : t \in {u \in Tables(n - 1) : Len(u) = n - 1}, r \in RowPool}

Init == \E rows \in Tables(MaxRows) \ {<<>>} : FirstRun(rows)

Next ==
    \/ SetCountries
    \/ SetStatus
    \/ SetCategory
    \/ SelectCountryA
    \/ SelectCountryB

Spec == Init /\ [][Next]_vars

(***************************************************************************)
(* The comparator specification: two countries; the first row takes every  *)
(* combination of four cell texts, the second row one text in all columns. *)
(***************************************************************************)
CellTexts == {"Yes", "Partial", "No", " Yes", "Maybe", ""}

FirstRowTexts == {"Yes", "Partial", "No", "Maybe"}

UniformCells(v) == [c \in PolicySet |-> v]

InitCompare ==
    \E a \in [PolicySet -> FirstRowTexts], v \in CellTexts :
        FirstRun(<<RawRow("France", "2026-02-20", "Green", a),
                   RawRow("Germany", "2026-01-28", "Red", UniformCells(v))>>)

NextCompare == SelectCountryA \/ SelectCountryB

SpecCompare == InitCompare /\ [][NextCompare]_vars

(***************************************************************************)
(* The scoring specification: one row, every combination of cell texts.    *)
(***************************************************************************)
InitScore ==
    \E a \in [PolicySet -> CellTexts] :
        FirstRun(<<RawRow("France", "2026-02-20", "Green", a)>>)

NextScore == SetCountries

SpecScore == InitScore /\ [][NextScore]_vars

(***************************************************************************)
(* Properties.                                                             *)
(***************************************************************************)
Abs(x) == IF x < 0 THEN -x ELSE x

\* p (in tenths) is the tenth nearest to the fraction n / d (in tenths).
NearestTenth(p, n, d) == 2 * Abs(d * p - n) <= d

Count(row, texts) == Cardinality({c \in PolicySet : row[c] \in texts})

\* Twice the sum of the six field scores, when the cells in `yes` score 1.0
\* and the cells in `partial` score 0.5.
TwiceScoreSum(row, yes, partial) == 2 * Count(row, yes) + Count(row, partial)

AllYes(row) == \A c \in PolicySet : row[c] = "Yes"

AllNo(row) == \A c \in PolicySet : row[c] = "No"

\* The example record {Yes, No, Partial, No, Yes, No}.
Example417(row) ==
    /\ row.prevention = "Yes"
    /\ row.administrative = "No"
    /\ row.criminal_justice = "Partial"
    /\ row.surveillance = "No"
    /\ row.rehab_reintegration = "Yes"
    /\ row.women_children_notes = "No"

ScoredAs(row, yes, partial) ==
    /\ row.completeness_pct \in 0..1000
    /\ NearestTenth(row.completeness_pct, 1000 * TwiceScoreSum(row, yes, partial), 12)
    /\ AllYes(row) => row.completeness_pct = 1000
    /\ Example417(row) => row.completeness_pct = 417

\* C1 (as stated): completenessPct is round(100 x mean of the six scores, 1)
\* with a cell scoring 1.0 only if it is exactly Yes, 0.5 only if it is
\* exactly Partial, and 0.0 for any other string; it lies in [0,100].
C1_LiteralScores ==
    \A i \in 1..Len(df) : ScoredAs(df[i], {"Yes"}, {"Partial"})

\* C1 (amended): completenessPct is round(100 x mean of the six scores, 1)
\* with a cell scoring 1.0 if, once its surrounding whitespace is removed, it
\* is Yes, 0.5 if it is then Partial, and 0.0 otherwise (No, any other text,
\* an empty cell); it lies in [0,100]; all-Yes gives 100.0 and
\* {Yes,No,Partial,No,Yes,No} gives 41.7.
C1_TrimmedScores ==
    \A i \in 1..Len(df) :
        ScoredAs(df[i], {"Yes", " Yes", "Yes "}, {"Partial", " Partial"})

C1_Witness ==
    \E i \in 1..Len(df) :
        /\ df[i].prevention = " Yes"
        /\ df[i].administrative = "No"
        /\ df[i].criminal_justice = "Partial"
        /\ df[i].surveillance = "Maybe"
        /\ df[i].rehab_reintegration = "Yes"
        /\ df[i].women_children_notes = NaN
        /\ df[i].completeness_pct = 417

\* The comparator table is on the page.
Compared == Len(compare_rows) = Len(POLICY_COLUMNS) /\ country_a # NoCountry

Notes == {compare_rows[k].Catatan : k \in 1..Len(compare_rows)}

\* Strength under Yes > Partial > No; 0 for a value outside the three.
Strength(v) ==
    CASE v = "Yes" -> 3
      [] v = "Partial" -> 2
      [] v = "No" -> 1
      [] OTHER -> 0

Stronger(x, y) == Strength(x) > 0 /\ Strength(y) > 0 /\ Strength(x) > Strength(y)

SameString(x, y) == x # NaN /\ y # NaN /\ x = y

Verdict(x, y) ==
    IF SameString(x, y) THEN Sama
    ELSE IF Stronger(x, y) THEN LebihKuat(country_a)
    ELSE IF Stronger(y, x) THEN LebihKuat(country_b)
    ELSE Berbeda

\* C2: for each of the six policy fields, in their fixed order, the verdict
\* is Equal if the two values are the same string, otherwise A-stronger if A
\* is strictly stronger under Yes > Partial > No, otherwise B-stronger if B
\* is, otherwise Divergent.
C2_VerdictOrder ==
    Compared =>
        \A k \in 1..Len(POLICY_COLUMNS) :
            LET col == POLICY_COLUMNS[k]
                e == compare_rows[k]
            IN  /\ e.Kategori = CATEGORY_LABELS[col]
                /\ \E i \in 1..Len(df) :
                    df[i].country = country_a /\ df[i][col] = e.a_val
                /\ \E i \in 1..Len(df) :
                    df[i].country = country_b /\ df[i][col] = e.b_val
                /\ e.Catatan = Verdict(e.a_val, e.b_val)

C2_Witness ==
    /\ Compared
    /\ country_a # country_b
    /\ Notes = {Sama, LebihKuat(country_a), LebihKuat(country_b), Berbeda}
    /\ \E k \in 1..Len(compare_rows) :
        compare_rows[k].a_val = "Maybe" /\ compare_rows[k].Catatan = Berbeda

\* C3: a record compared with itself gets the verdict Equal in each of the
\* six categories and the "equally complete" summary, also when some of its
\* cells are empty or unrecognized.
C3_SelfCompare ==
    (Compared /\ country_a = country_b) =>
        /\ \A k \in 1..Len(compare_rows) : compare_rows[k].Catatan = Sama
        /\ summary.text = "setara"

\* C4: gapCount is the number of (record, policy field) cells of the given
\* records whose value is exactly "No"; other cells never add to it.
C4_GapCount ==
    kpi.gap_fields =
        Cardinality({<<i, c>> \in (1..Len(filtered_df)) \X PolicySet :
                        filtered_df[i][c] = "No"})

C4_Witness ==
    /\ kpi.gap_fields = 1
    /\ \E i \in 1..Len(filtered_df) :
        /\ filtered_df[i].surveillance = "Yes"
        /\ filtered_df[i].rehab_reintegration = " No"
        /\ filtered_df[i].women_children_notes = NaN

\* The filter predicate of one record under the current selections.
Passes(r) ==
    /\ r.country \in selected_countries
    /\ r.review_status \in selected_status
    /\ selected_category # Semua => r[selected_category] \in {"Yes", "Partial"}

Kept == {i \in 1..Len(df) : Passes(df[i])}

Defaults ==
    /\ selected_countries = {df[i].country : i \in 1..Len(df)} \ {NaN}
    /\ selected_status = StatusSet
    /\ selected_category = Semua

\* C6: with all countries, the three statuses and no category focus selected,
\* the filter returns the full dataset, every record, in original order.
C6_DefaultsKeepAll == Defaults => filtered_df = df

\* C7: summarizing an empty record sequence gives totalCount 0, the Green,
\* Yellow and Red counts 0, avgCompleteness 0.0 and gapCount 0.
C7_EmptySummary ==
    filtered_df = <<>> =>
        /\ kpi.total_country = 0
        /\ kpi.green_count = 0
        /\ kpi.yellow_count = 0
        /\ kpi.red_count = 0
        /\ kpi.avg_completeness = 0
        /\ kpi.gap_fields = 0

C7_Witness ==
    /\ filtered_df = <<>>
    /\ selected_status = {}
    /\ selected_countries # {}
    /\ \E i \in 1..Len(df) : df[i].review_status = "Green"

\* The CSV rows that have a country.
WithCountry == {i \in 1..Len(raw) : raw[i].country # ""}

\* C8: the loader leaves out every row whose country is empty and no other
\* row: the loaded records and the total record count cover exactly the rows
\* that have a country.
C8_NoCountryDropped ==
    /\ \A i \in 1..Len(df) : df[i].country # NaN
    /\ kpi.total_all = Cardinality(WithCountry)

\* C9: after any sequence of filter changes, table renderings and country
\* comparisons every record of the canonical dataset is what the load made
\* of its CSV row: the cells as read, the date as parsed, the completeness
\* as computed.
C9_CanonicalAsLoaded ==
    /\ Len(df) = Len(raw)
    /\ \A i \in 1..Len(df) :
        /\ df[i].country = ReadCell(raw[i].country)
        /\ df[i].review_status = ReadCell(raw[i].review_status)
        /\ df[i].last_update = ToDatetime(ReadCell(raw[i].last_update))
        /\ \A c \in PolicySet : df[i][c] = ReadCell(raw[i][c])
        /\ df[i].completeness_pct = calc_country_completeness(df[i])

C9_Witness ==
    /\ selected_category # Semua
    /\ selected_status # StatusSet
    /\ country_a = country_b
    /\ Compared
    /\ \E i \in 1..Len(display_df) :
        /\ display_df[i].review_status = "(yellow) Yellow"
        /\ display_df[i].last_update = NaN
        /\ filtered_df[i].review_status = "Yellow"

\* The records the comparator looks up.
RecordA == RowOf(df, country_a)

RecordB == RowOf(df, country_b)

MoreComplete(c, p, d, q) ==
    [text |-> "lebih lengkap", first |-> c, first_score |-> p,
     second |-> d, second_score |-> q]

\* C10: if no category is B-stronger or Divergent and at least one is
\* A-stronger, then completenessPct(A) > completenessPct(B) and the summary
\* names A as more complete; symmetrically for B; all-Yes against all-No gives
\* six A-stronger verdicts and "more complete (100.0% vs 0.0%)".
C10_VerdictsAgreeWithSummary ==
    Compared =>
        LET pa == RecordA.completeness_pct
            pb == RecordB.completeness_pct
        IN  /\ (/\ Notes \cap {LebihKuat(country_b), Berbeda} = {}
                /\ LebihKuat(country_a) \in Notes)
               => (pa > pb /\ summary = MoreComplete(country_a, pa, country_b, pb))
            /\ (/\ Notes \cap {LebihKuat(country_a), Berbeda} = {}
                /\ LebihKuat(country_b) \in Notes)
               => (pb > pa /\ summary = MoreComplete(country_b, pb, country_a, pa))
            /\ (AllYes(RecordA) /\ AllNo(RecordB))
               => (/\ \A k \in 1..Len(compare_rows) :
                        compare_rows[k].Catatan = LebihKuat(country_a)
                   /\ summary = MoreComplete(country_a, 1000, country_b, 0))

C10_Witness ==
    /\ Compared
    /\ Notes = {Sama, LebihKuat(country_b)}
    /\ compare_rows[1].a_val = "Partial"
    /\ compare_rows[1].b_val = "Partial"
    /\ compare_rows[2].a_val = "Partial"
    /\ compare_rows[2].b_val = "Yes"
    /\ summary.first = country_b
    /\ summary.text = "lebih lengkap"

====
